---------------------------- MODULE Spec2Model ----------------------------
(***************************************************************************)
(* A model of src/preprocessing.py: the path sanitizer, the file index     *)
(* builder, the embedded-reference resolver, the content rewrite pipeline  *)
(* and one run of create_staging_directory.                                *)
(*                                                                         *)
(* Python strings are sequences of one-character strings, so that          *)
(* str.replace, str.split, the regular expressions and os.path.relpath are *)
(* computed character by character as the code computes them.              *)
(***************************************************************************)
EXTENDS Naturals, Sequences, FiniteSets, TLC

VARIABLES
    tree,        \* the source tree as rglob('*') yields it: a sequence of items
    pc,          \* position of the run: "index", "stage", "file", "done", "raised"
    pos,         \* number of items the current traversal has consumed
    file_index,  \* build_file_index's dict: sanitized filename -> str or list
    path_set,    \* build_file_index's set of sanitized relative paths
    staged,      \* the staging tree: pairs <<output path, source item path>>
    printed,     \* the lines the last step wrote to stdout
    last,        \* the frame of the call of process_markdown_file in progress, if any
    path_str,    \* the argument of a call of sanitize_path
    sanitized    \* that call's result

vars == <<tree, pc, pos, file_index, path_set, staged, printed, last,
          path_str, sanitized>>

-----------------------------------------------------------------------------
(* Bounds of the model.                                                    *)

\* Longest argument of sanitize_path that is enumerated.
MaxLen == 6

\* Largest number of items (files and directories) in a source tree.
MaxItems == 3

\* Largest number of pieces a generated document content is made of.
MaxPieces == 4

-----------------------------------------------------------------------------
(* Python's str and list primitives.                                       *)

\* s[i:] starts with pat (1-based i).
StartsWithAt(s, i, pat) ==
    /\ i + Len(pat) - 1 <= Len(s)
    /\ \A k \in 1..Len(pat) : s[i + k - 1] = pat[k]

\* str.startswith
StartsWith(s, pat) == StartsWithAt(s, 1, pat)

\* pat in s
Contains(s, pat) == \E i \in 1..(Len(s) + 1) : StartsWithAt(s, i, pat)

\* s[i:] (1-based i)
Tail_(s, i) == SubSeq(s, i, Len(s))

\* str.replace(old, new) for a non-empty old: leftmost, non-overlapping.
RECURSIVE ReplaceFrom(_, _, _, _)
ReplaceFrom(s, i, old, new) ==
    IF i > Len(s) THEN <<>>
    ELSE IF StartsWithAt(s, i, old)
         THEN new \o ReplaceFrom(s, i + Len(old), old, new)
         ELSE <<s[i]>> \o ReplaceFrom(s, i + 1, old, new)

Replace(s, old, new) == ReplaceFrom(s, 1, old, new)

\* str.split(sep) for a one-character sep: "a//b" gives ["a", "", "b"], "" gives [""].
RECURSIVE SplitFrom(_, _, _, _)
SplitFrom(s, i, sep, cur) ==
    IF i > Len(s) THEN <<cur>>
    ELSE IF s[i] = sep
         THEN <<cur>> \o SplitFrom(s, i + 1, sep, <<>>)
         ELSE SplitFrom(s, i + 1, sep, Append(cur, s[i]))

Split(s, sep) == SplitFrom(s, 1, sep, <<>>)

\* sep.join(parts)
RECURSIVE Join(_, _)
Join(parts, sep) ==
    IF parts = <<>> THEN <<>>
    ELSE IF Len(parts) = 1 THEN parts[1]
    ELSE parts[1] \o <<sep>> \o Join(Tail(parts), sep)

-----------------------------------------------------------------------------
(* PATH UTILITIES                                                          *)

\* A variant that deletes the encoded space instead of replacing it.
sanitize_filename_deleting(filename) ==
    Replace(Replace(filename, <<"%", "2", "0">>, <<>>), <<" ">>, <<"_">>)

sanitize_filename(filename) ==
    Replace(Replace(filename, <<"%", "2", "0">>, <<"_">>), <<" ">>, <<"_">>)

\* [sanitize_filename(part) for part in parts]
SanitizeParts(parts) == [k \in 1..Len(parts) |-> sanitize_filename(parts[k])]

sanitize_path(p) ==
    Join(SanitizeParts(Split(Replace(p, <<"\\">>, <<"/">>), "/")), "/")

\* pathlib.PurePosixPath(s).parts of a relative path: empty and "." segments drop.
PathParts(s) ==
    SelectSeq(Split(s, "/"), LAMBDA seg : seg # <<>> /\ seg # <<".">>)

\* str(PurePosixPath(*parts)) of a relative path
PathStr(parts) ==
    LET kept == PathParts(Join(parts, "/"))
    IN  IF kept = <<>> THEN <<".">> ELSE Join(kept, "/")

\* str(Path(s).parent) of a relative path
PathParent(s) ==
    LET parts == PathParts(s)
    IN  IF Len(parts) <= 1 THEN <<".">>
        ELSE Join(SubSeq(parts, 1, Len(parts) - 1), "/")

\* Path(s).name
PathName(s) ==
    LET parts == PathParts(s)
    IN  IF parts = <<>> THEN <<>> ELSE parts[Len(parts)]

\* str.rfind(".") (1-based, 0 when absent)
RECURSIVE RFindDot(_, _)
RFindDot(name, i) ==
    IF i = 0 THEN 0
    ELSE IF name[i] = "." THEN i ELSE RFindDot(name, i - 1)

\* Path(s).suffix
PathSuffix(s) ==
    LET name == PathName(s)
        i    == RFindDot(name, Len(name))
    IN  IF 1 < i /\ i < Len(name) THEN Tail_(name, i) ELSE <<>>

UpperChars == <<"A", "B", "C", "D", "E", "F", "G", "H", "I", "J", "K", "L", "M",
                "N", "O", "P", "Q", "R", "S", "T", "U", "V", "W", "X", "Y", "Z">>
LowerChars == <<"a", "b", "c", "d", "e", "f", "g", "h", "i", "j", "k", "l", "m",
                "n", "o", "p", "q", "r", "s", "t", "u", "v", "w", "x", "y", "z">>

\* str.lower() of one character
LowerChar(c) ==
    IF \E k \in 1..26 : UpperChars[k] = c
    THEN LowerChars[CHOOSE k \in 1..26 : UpperChars[k] = c]
    ELSE c

\* A variant that keeps the case.
Lower_none(s) == s

\* str.lower()
Lower(s) == [k \in 1..Len(s) |-> LowerChar(s[k])]

\* The process's working directory, as os.path.abspath prefixes it.
Cwd == << <<"w">> >>

\* os.path.normpath of an absolute path, as a list of segments.
RECURSIVE NormParts(_, _)
NormParts(comps, acc) ==
    IF comps = <<>> THEN acc
    ELSE LET c == Head(comps)
         IN  IF c = <<>> \/ c = <<".">> THEN NormParts(Tail(comps), acc)
             ELSE IF c = <<".", ".">>
                  THEN NormParts(Tail(comps),
                                 IF acc = <<>> THEN acc
                                 ELSE SubSeq(acc, 1, Len(acc) - 1))
                  ELSE NormParts(Tail(comps), Append(acc, c))

\* [x for x in os.path.abspath(p).split('/') if x]
AbsParts(p) ==
    IF StartsWith(p, <<"/">>) THEN NormParts(Split(p, "/"), <<>>)
    ELSE NormParts(Cwd \o Split(p, "/"), <<>>)

\* len(os.path.commonprefix([a, b])) of two lists
RECURSIVE CommonLen(_, _)
CommonLen(a, b) ==
    IF a = <<>> \/ b = <<>> \/ Head(a) # Head(b) THEN 0
    ELSE 1 + CommonLen(Tail(a), Tail(b))

\* os.path.relpath(path, start) for a non-empty path
RelPath(path, start) ==
    LET start_list == AbsParts(start)
        path_list  == AbsParts(path)
        i          == CommonLen(start_list, path_list)
        rel_list   == [k \in 1..(Len(start_list) - i) |-> <<".", ".">>]
                          \o SubSeq(path_list, i + 1, Len(path_list))
    IN  IF rel_list = <<>> THEN <<".">> ELSE Join(rel_list, "/")

\* A variant that forgets the ".." segments that climb out of from_dir.
get_relative_path_no_climb(from_file, to_file) ==
    LET start_list == AbsParts(PathParent(from_file))
        path_list  == AbsParts(to_file)
        i          == CommonLen(start_list, path_list)
    IN  Join(SubSeq(path_list, i + 1, Len(path_list)), "/")

get_relative_path(from_file, to_file) ==
    LET from_dir == PathParent(from_file)
    IN  IF to_file = <<>>
        THEN Replace(to_file, <<"\\">>, <<"/">>)        \* except ValueError
        ELSE Replace(RelPath(to_file, from_dir), <<"\\">>, <<"/">>)

-----------------------------------------------------------------------------
(* CONFIGURATION                                                           *)

IMAGE_EXTENSIONS ==
    { <<".", "j", "p", "g">>, <<".", "j", "p", "e", "g">>, <<".", "p", "n", "g">>,
      <<".", "g", "i", "f">>, <<".", "w", "e", "b", "p">>, <<".", "s", "v", "g">>,
      <<".", "b", "m", "p">> }

-----------------------------------------------------------------------------
(* The regular expressions, matched as re.sub matches them: leftmost,      *)
(* non-overlapping, scanning from position i.                              *)

\* The characters \S does not match.
Whitespace == {" ", "\t", "\n", "\r", "\f"}

\* Smallest j >= i with s[j:] starting with pat, or 0.
RECURSIVE Find(_, _, _)
Find(s, i, pat) ==
    IF i + Len(pat) - 1 > Len(s) THEN 0
    ELSE IF StartsWithAt(s, i, pat) THEN i ELSE Find(s, i + 1, pat)

\* PHASE 0: re.sub(r'(\S)(\!\[\[)', r'\1\n\n\2', content)
RECURSIVE LinebreaksFrom(_, _)
LinebreaksFrom(s, i) ==
    IF i > Len(s) THEN <<>>
    ELSE IF s[i] \notin Whitespace /\ StartsWithAt(s, i + 1, <<"!", "[", "[">>)
         THEN <<s[i], "\n", "\n", "!", "[", "[">> \o LinebreaksFrom(s, i + 4)
         ELSE <<s[i]>> \o LinebreaksFrom(s, i + 1)

ensure_image_linebreaks(content) == LinebreaksFrom(content, 1)

\* [a-f0-9] under re.IGNORECASE
HexChars == {"a", "b", "c", "d", "e", "f", "0", "1", "2", "3", "4", "5", "6", "7",
             "8", "9"}

NotionPrefix == <<"l", "a", "b", "%", "2", "0", "n", "o", "t", "e", "b", "o", "o",
                  "k", "%", "2", "0">>

Attachments == <<"a", "t", "t", "a", "c", "h", "m", "e", "n", "t", "s", "/">>

\* First position at or after i that holds no hexadecimal digit.
RECURSIVE HexRunEnd(_, _)
HexRunEnd(s, i) ==
    IF i > Len(s) \/ LowerChar(s[i]) \notin HexChars THEN i
    ELSE HexRunEnd(s, i + 1)

\* Position after a match of Lab%20Notebook%20[a-f0-9]+/ at i, or 0.
NotionMatchEnd(s, i) ==
    IF ~( /\ i + Len(NotionPrefix) - 1 <= Len(s)
          /\ \A k \in 1..Len(NotionPrefix) :
                 LowerChar(s[i + k - 1]) = NotionPrefix[k] )
    THEN 0
    ELSE LET h == i + Len(NotionPrefix)
             e == HexRunEnd(s, h)
         IN  IF e > h /\ e <= Len(s) /\ s[e] = "/" THEN e + 1 ELSE 0

RECURSIVE NotionFrom(_, _)
NotionFrom(s, i) ==
    IF i > Len(s) THEN <<>>
    ELSE LET e == NotionMatchEnd(s, i)
         IN  IF e # 0 THEN Attachments \o NotionFrom(s, e)
             ELSE <<s[i]>> \o NotionFrom(s, i + 1)

\* PHASE 1
normalize_notion_folders(content) ==
    Replace(NotionFrom(content, 1), <<"_", "_">> \o Attachments, Attachments)

\* A match of \[([^\]]*)\]\(([^)]+)\) whose "[" stands at b: the positions of
\* its "]" and of its closing ")", or ok = FALSE.
LinkMatch(s, b) ==
    LET t == Find(s, b + 1, <<"]">>)
        e == IF t = 0 THEN 0 ELSE Find(s, t + 2, <<")">>)
    IN  IF /\ b <= Len(s) /\ s[b] = "["
           /\ t # 0 /\ StartsWithAt(s, t + 1, <<"(">>)
           /\ e > t + 2
        THEN [ok |-> TRUE, b |-> b, t |-> t, e |-> e]
        ELSE [ok |-> FALSE, b |-> b, t |-> 0, e |-> 0]

\* A match of (!?\[)([^\]]*)\]\(([^)]+)\) starting at i.
AnyLinkMatch(s, i) ==
    IF s[i] = "!" THEN LinkMatch(s, i + 1) ELSE LinkMatch(s, i)

\* A match of !\[([^\]]*)\]\(([^)]+)\) starting at i.
ImageLinkMatch(s, i) ==
    IF s[i] = "!" THEN LinkMatch(s, i + 1)
    ELSE [ok |-> FALSE, b |-> i, t |-> 0, e |-> 0]

fix_url(prefix, text, url) ==
    prefix \o text \o <<"]", "(">> \o sanitize_path(url) \o <<")">>

RECURSIVE NormalizeLinksFrom(_, _)
NormalizeLinksFrom(s, i) ==
    IF i > Len(s) THEN <<>>
    ELSE LET m == AnyLinkMatch(s, i)
         IN  IF m.ok
             THEN fix_url(SubSeq(s, i, m.b), SubSeq(s, m.b + 1, m.t - 1),
                          SubSeq(s, m.t + 2, m.e - 1))
                      \o NormalizeLinksFrom(s, m.e + 1)
             ELSE <<s[i]>> \o NormalizeLinksFrom(s, i + 1)

normalize_markdown_link_urls(content) == NormalizeLinksFrom(content, 1)

normalize_all_paths(content) ==
    normalize_markdown_link_urls(normalize_notion_folders(content))

-----------------------------------------------------------------------------
(* PHASE 2: LINK CONVERSION                                                *)

\* A value of file_index: a str, or a list of str.
StrValue(p) == [kind |-> "str", path |-> p]
ListValue(ps) == [kind |-> "list", paths |-> ps]

\* f'![]({path})' or f'[Download {filename}]({path})'
Render(ext, filename, path) ==
    IF ext \in IMAGE_EXTENSIONS
    THEN <<"!", "[", "]", "(">> \o path \o <<")">>
    ELSE <<"[", "D", "o", "w", "n", "l", "o", "a", "d", " ">> \o filename
             \o <<"]", "(">> \o path \o <<")">>

\* current_dir joined with the sanitized reference (lines 157-161)
Candidate(current_file, sanitized_path) ==
    LET current_dir == Replace(PathParent(current_file), <<"\\">>, <<"/">>)
    IN  IF current_dir = <<".">> THEN sanitized_path
        ELSE current_dir \o <<"/">> \o sanitized_path

\* A variant that tries the document-relative interpretation first.
explicit_final_path_relative_first(raw_reference, current_file, paths) ==
    LET sanitized_path == sanitize_path(raw_reference)
    IN  IF Candidate(current_file, sanitized_path) \in paths
        THEN sanitized_path
        ELSE IF sanitized_path \in paths
             THEN get_relative_path(current_file, sanitized_path)
             ELSE sanitized_path

\* final_path of an explicit-path reference
explicit_final_path(raw_reference, current_file, paths) ==
    LET sanitized_path == sanitize_path(raw_reference)
    IN  IF sanitized_path \in paths
        THEN get_relative_path(current_file, sanitized_path)
        ELSE IF Candidate(current_file, sanitized_path) \in paths
             THEN sanitized_path
             ELSE sanitized_path

\* A variant that takes the most recent candidate of a list.
pick_last(value) ==
    IF value.kind = "list" THEN value.paths[Len(value.paths)] ELSE value.path

\* file_path after the isinstance(file_path, list) test
pick(value) ==
    IF value.kind = "list" THEN value.paths[1] ELSE value.path

\* A variant that renders the missing file as a link all the same.
not_found_rendered(raw_reference) ==
    Render(Lower(PathSuffix(raw_reference)), raw_reference, raw_reference)

\* f'![[{raw_reference}]]'
not_found(raw_reference) ==
    <<"!", "[", "[">> \o raw_reference \o <<"]", "]">>

IsExplicit(raw_reference) ==
    Contains(raw_reference, <<"/">>) \/ Contains(raw_reference, <<"\\">>)

\* What replacement(match) returns for match.group(1) = raw_reference.
replacement(raw_reference, current_file, index, paths) ==
    IF IsExplicit(raw_reference)
    THEN Render(Lower(PathSuffix(raw_reference)), PathName(raw_reference),
                explicit_final_path(raw_reference, current_file, paths))
    ELSE LET sanitized_lookup == sanitize_filename(raw_reference)
         IN  IF sanitized_lookup \notin DOMAIN index
             THEN not_found(raw_reference)
             ELSE Render(Lower(PathSuffix(raw_reference)), raw_reference,
                         get_relative_path(current_file,
                                           pick(index[sanitized_lookup])))

\* The lines replacement(match) prints.
replacement_prints(raw_reference, current_file, index, paths) ==
    IF IsExplicit(raw_reference)
    THEN LET sanitized_path == sanitize_path(raw_reference)
         IN  IF /\ sanitized_path \notin paths
                /\ Candidate(current_file, sanitized_path) \notin paths
             THEN << <<"Warning: Path not found", sanitized_path, current_file>> >>
             ELSE <<>>
    ELSE LET sanitized_lookup == sanitize_filename(raw_reference)
         IN  IF sanitized_lookup \notin DOMAIN index
             THEN << <<"Warning: File not found in index", raw_reference,
                       current_file>> >>
             ELSE IF index[sanitized_lookup].kind = "list"
                  THEN << <<"Warning: Multiple files named", raw_reference,
                            index[sanitized_lookup].paths[1]>> >>
                  ELSE <<>>

\* A match of !\[\[(.*?)\]\] starting at i: the position of its "]]", or 0.
EmbedMatchEnd(s, i) ==
    IF ~StartsWithAt(s, i, <<"!", "[", "[">>) THEN 0
    ELSE LET j == Find(s, i + 3, <<"]", "]">>)
             n == Find(s, i + 3, <<"\n">>)
         IN  IF j # 0 /\ (n = 0 \/ n > j) THEN j ELSE 0

\* match.group(1) of every match, in order.
RECURSIVE EmbedsFrom(_, _)
EmbedsFrom(s, i) ==
    IF i > Len(s) THEN <<>>
    ELSE LET j == EmbedMatchEnd(s, i)
         IN  IF j # 0 THEN <<SubSeq(s, i + 3, j - 1)>> \o EmbedsFrom(s, j + 2)
             ELSE EmbedsFrom(s, i + 1)

RECURSIVE ConvertFrom(_, _, _, _, _)
ConvertFrom(s, i, current_file, index, paths) ==
    IF i > Len(s) THEN <<>>
    ELSE LET j == EmbedMatchEnd(s, i)
         IN  IF j # 0
             THEN replacement(SubSeq(s, i + 3, j - 1), current_file, index, paths)
                      \o ConvertFrom(s, j + 2, current_file, index, paths)
             ELSE <<s[i]>> \o ConvertFrom(s, i + 1, current_file, index, paths)

convert_obsidian_links(content, current_file, index, paths) ==
    ConvertFrom(content, 1, current_file, index, paths)

RECURSIVE PrintsOf(_, _, _, _)
PrintsOf(refs, current_file, index, paths) ==
    IF refs = <<>> THEN <<>>
    ELSE replacement_prints(Head(refs), current_file, index, paths)
             \o PrintsOf(Tail(refs), current_file, index, paths)

\* Everything convert_obsidian_links prints.
convert_prints(content, current_file, index, paths) ==
    PrintsOf(EmbedsFrom(content, 1), current_file, index, paths)

IsExternal(url) ==
    \/ StartsWith(url, <<"h", "t", "t", "p", ":", "/", "/">>)
    \/ StartsWith(url, <<"h", "t", "t", "p", "s", ":", "/", "/">>)
    \/ StartsWith(url, <<"d", "a", "t", "a", ":">>)

\* replacement(match) of rewrite_absolute_paths, on the whole match, the alt
\* text and the url.
rewrite_replacement(whole, alt_text, url, current_file, paths) ==
    IF IsExternal(url) THEN whole
    ELSE LET sanitized_url == sanitize_path(url)
             final == IF sanitized_url \in paths
                      THEN get_relative_path(current_file, sanitized_url)
                      ELSE sanitized_url
         IN  <<"!", "[">> \o alt_text \o <<"]", "(">> \o final \o <<")">>

RECURSIVE RewriteFrom(_, _, _, _)
RewriteFrom(s, i, current_file, paths) ==
    IF i > Len(s) THEN <<>>
    ELSE LET m == ImageLinkMatch(s, i)
         IN  IF m.ok
             THEN rewrite_replacement(SubSeq(s, i, m.e),
                                      SubSeq(s, m.b + 1, m.t - 1),
                                      SubSeq(s, m.t + 2, m.e - 1),
                                      current_file, paths)
                      \o RewriteFrom(s, m.e + 1, current_file, paths)
             ELSE <<s[i]>> \o RewriteFrom(s, i + 1, current_file, paths)

rewrite_absolute_paths(content, current_file, paths) ==
    RewriteFrom(content, 1, current_file, paths)

-----------------------------------------------------------------------------
(* PHASE 3: TEXT CLEANUP                                                   *)

\* The code points U+2013, U+2014 and U+2212, each one character of a str.
EnDash == "U+2013"
EmDash == "U+2014"
MinusSign == "U+2212"

fix_text_issues(content) ==
    Replace(Replace(Replace(Replace(content, <<EnDash>>, <<"-">>),
                            <<EmDash>>, <<"-">>),
                    <<MinusSign>>, <<"-">>),
            <<"@">>, <<"\\", "@">>)

-----------------------------------------------------------------------------
(* MAIN PROCESSING PIPELINE                                                *)

\* A variant that isolates the embeds only after they are converted.
Phases_isolation_after_conversion(content, current_file, index, paths) ==
    LET c1  == normalize_all_paths(content)
        c2  == convert_obsidian_links(c1, current_file, index, paths)
        c0  == ensure_image_linebreaks(c2)
        c2b == rewrite_absolute_paths(c0, current_file, paths)
        c3  == fix_text_issues(c2b)
    IN  [phase0 |-> c0, phase1 |-> c1, phase2 |-> c2, phase2b |-> c2b,
         phase3 |-> c3]

\* The value of content after each line of process_markdown_content.
Phases(content, current_file, index, paths) ==
    LET c0  == ensure_image_linebreaks(content)
        c1  == normalize_all_paths(c0)
        c2  == convert_obsidian_links(c1, current_file, index, paths)
        c2b == rewrite_absolute_paths(c2, current_file, paths)
        c3  == fix_text_issues(c2b)
    IN  [phase0 |-> c0, phase1 |-> c1, phase2 |-> c2, phase2b |-> c2b,
         phase3 |-> c3]

process_markdown_content(content, current_file, index, paths) ==
    Phases(content, current_file, index, paths).phase3

-----------------------------------------------------------------------------
(* The source trees and the document contents that are enumerated.        *)
(* An item is one path rglob('*') yields: its parts relative to the source *)
(* root and whether it is a regular file. A directory is listed only where *)
(* the tree holds an item for it; both loops pass over a directory without *)
(* changing anything, so that leaving one out loses no behaviour. File     *)
(* names hold no path separator.                                           *)

Item(parts, is_file) == [parts |-> parts, is_file |-> is_file]

\* a
DirA == Item(<<<<"a">>>>, FALSE)
\* a/x.png
FileAX == Item(<<<<"a">>, <<"x", ".", "p", "n", "g">>>>, TRUE)
\* b c/x.png
FileBX == Item(<<<<"b", " ", "c">>, <<"x", ".", "p", "n", "g">>>>, TRUE)
\* a/a/x.png
FileAAX == Item(<<<<"a">>, <<"a">>, <<"x", ".", "p", "n", "g">>>>, TRUE)
\* a/@.pdf
FileAt == Item(<<<<"a">>, <<"@", ".", "p", "d", "f">>>>, TRUE)
\* _p/x.png
FilePrivate == Item(<<<<"_", "p">>, <<"x", ".", "p", "n", "g">>>>, TRUE)
\* a/d.md
DocA == Item(<<<<"a">>, <<"d", ".", "m", "d">>>>, TRUE)
\* b c/e.md
DocB == Item(<<<<"b", " ", "c">>, <<"e", ".", "m", "d">>>>, TRUE)
\* d.md
DocRoot == Item(<<<<"d", ".", "m", "d">>>>, TRUE)

Universe == {DirA, FileAX, FileBX, FileAAX, FileAt,
             FilePrivate, DocA, DocB, DocRoot}

\* ![[x.png]]
BareEmbed ==
    <<"!", "[", "[", "x", ".", "p", "n", "g", "]", "]">>
\* t![[x.png]]
InlineEmbed ==
    <<"t", "!", "[", "[", "x", ".", "p", "n", "g", "]", "]">>
\* ![[a/x.png]]
ExplicitEmbed ==
    <<"!", "[", "[", "a", "/", "x", ".", "p", "n", "g", "]", "]">>
\* ![[a\x.png]]
WindowsEmbed ==
    <<"!", "[", "[", "a", "\\", "x", ".", "p", "n", "g", "]", "]">>
\* ![[@.pdf]]
AtEmbed ==
    <<"!", "[", "[", "@", ".", "p", "d", "f", "]", "]">>
\* [l](http://e/ b)
ExternalLink ==
    <<"[", "l", "]", "(", "h", "t", "t", "p", ":", "/", "/", "e", "/", " ", "b", ")">>
\* ![](a/x.png)
RootImage ==
    <<"!", "[", "]", "(", "a", "/", "x", ".", "p", "n", "g", ")">>
\* ![](Lab%20Notebook%20a1/x.png)
NotionImage ==
    <<"!", "[", "]", "(", "L", "a", "b", "%", "2", "0", "N", "o", "t", "e", "b", "o", "o", "k", "%", "2", "0", "a", "1", "/", "x", ".", "p", "n", "g", ")">>

Contents == {BareEmbed, InlineEmbed, ExplicitEmbed, WindowsEmbed,
             AtEmbed, ExternalLink, RootImage, NotionImage}

Range(f) == {f[k] : k \in DOMAIN f}

\* Every order rglob may yield up to n items of the universe in.
RECURSIVE TreesUpTo(_)
TreesUpTo(n) ==
    IF n = 0 THEN {<<>>}
    ELSE LET shorter == TreesUpTo(n - 1)
         IN  shorter \cup
             UNION {{Append(t, x) : x \in Universe \ Range(t)} : t \in shorter}

-----------------------------------------------------------------------------
(* build_file_index and create_staging_directory, one loop iteration a step *)

\* A variant that tests for "." alone.
IsPrivate_hidden_only(item) ==
    \E k \in 1..Len(item.parts) : StartsWith(item.parts[k], <<".">>)

\* any(part.startswith(('.', '_')) for part in item.relative_to(source_path).parts)
IsPrivate(item) ==
    \E k \in 1..Len(item.parts) :
        StartsWith(item.parts[k], <<".">>) \/ StartsWith(item.parts[k], <<"_">>)

\* Whether the loops skip the item at line 105 and at line 288.
Skipped(item) == IsPrivate(item)

\* item.name
ItemName(item) == item.parts[Len(item.parts)]

\* str(Path(*[sanitize_filename(part) for part in parts])).replace('\\', '/')
SanitizedPathStr(item) ==
    Replace(PathStr(SanitizeParts(item.parts)), <<"\\">>, <<"/">>)

\* item.suffix == '.md'
IsMarkdown(item) == PathSuffix(ItemName(item)) = <<".", "m", "d">>

\* dict[key] = value
Put(index, key, value) ==
    [k \in DOMAIN index \cup {key} |-> IF k = key THEN value ELSE index[k]]

\* A variant that keeps only the newest path of a duplicated filename.
index_add_overwriting(index, sanitized_filename, sanitized_path_str) ==
    Put(index, sanitized_filename, StrValue(sanitized_path_str))

\* Lines 118-126: the filename index after one more file.
index_add(index, sanitized_filename, sanitized_path_str) ==
    IF sanitized_filename \in DOMAIN index
    THEN LET old == index[sanitized_filename]
             as_list == IF old.kind = "list" THEN old.paths ELSE <<old.path>>
         IN  Put(index, sanitized_filename,
                 ListValue(Append(as_list, sanitized_path_str)))
    ELSE Put(index, sanitized_filename, StrValue(sanitized_path_str))

\* The lines lines 118-124 print.
index_add_prints(index, sanitized_filename, sanitized_path_str) ==
    IF sanitized_filename \in DOMAIN index
    THEN (IF index[sanitized_filename].kind = "list" THEN <<>>
          ELSE << <<"Found duplicate", sanitized_filename>>,
                  <<"First", index[sanitized_filename].path>> >>)
         \o << <<"Another", sanitized_path_str>> >>
    ELSE <<>>

NoCall == [done |-> FALSE]

Unset == [done |-> FALSE, value |-> <<>>]

Init ==
    /\ tree \in TreesUpTo(MaxItems)
    /\ pc = "index"
    /\ pos = 0
    /\ file_index = <<>>
    /\ path_set = {}
    /\ staged = {}
    /\ printed = <<>>
    /\ last = NoCall
    /\ path_str = <<>>
    /\ sanitized = Unset

Current == tree[pos + 1]

\* build_file_index, line 105: a private item is passed over.
IndexSkipPrivate ==
    /\ pc = "index" /\ pos < Len(tree)
    /\ Skipped(Current)
    /\ pos' = pos + 1
    /\ printed' = <<>>
    /\ UNCHANGED <<tree, pc, file_index, path_set, staged, last, path_str,
                   sanitized>>

\* build_file_index, line 108: a directory is passed over.
IndexSkipDirectory ==
    /\ pc = "index" /\ pos < Len(tree)
    /\ ~Skipped(Current) /\ ~Current.is_file
    /\ pos' = pos + 1
    /\ printed' = <<>>
    /\ UNCHANGED <<tree, pc, file_index, path_set, staged, last, path_str,
                   sanitized>>

\* build_file_index, lines 109-126: a file enters path_set and file_index.
IndexAddFile ==
    /\ pc = "index" /\ pos < Len(tree)
    /\ ~Skipped(Current) /\ Current.is_file
    /\ LET sanitized_path_str == SanitizedPathStr(Current)
           sanitized_filename == sanitize_filename(ItemName(Current))
       IN  /\ path_set' = path_set \cup {sanitized_path_str}
           /\ file_index' = index_add(file_index, sanitized_filename,
                                      sanitized_path_str)
           /\ printed' = index_add_prints(file_index, sanitized_filename,
                                          sanitized_path_str)
    /\ pos' = pos + 1
    /\ UNCHANGED <<tree, pc, staged, last, path_str, sanitized>>

\* A variant that returns before the traversal has ended.
IndexReturn_early ==
    /\ pc = "index" /\ pos <= Len(tree)
    /\ pc' = "stage"
    /\ pos' = 0
    /\ printed' = << <<"Indexed", Cardinality(DOMAIN file_index),
                      Cardinality(path_set)>> >>
    /\ UNCHANGED <<tree, file_index, path_set, staged, last, path_str, sanitized>>

\* build_file_index returns; create_staging_directory starts its own traversal.
IndexReturn ==
    /\ pc = "index" /\ pos = Len(tree)
    /\ pc' = "stage"
    /\ pos' = 0
    /\ printed' = << <<"Indexed", Cardinality(DOMAIN file_index),
                      Cardinality(path_set)>> >>
    /\ UNCHANGED <<tree, file_index, path_set, staged, last, path_str, sanitized>>

\* create_staging_directory, line 288
StageSkipPrivate ==
    /\ pc = "stage" /\ pos < Len(tree)
    /\ Skipped(Current)
    /\ pos' = pos + 1
    /\ printed' = <<>>
    /\ UNCHANGED <<tree, pc, file_index, path_set, staged, last, path_str,
                   sanitized>>

\* create_staging_directory, line 291
StageSkipDirectory ==
    /\ pc = "stage" /\ pos < Len(tree)
    /\ ~Skipped(Current) /\ ~Current.is_file
    /\ pos' = pos + 1
    /\ printed' = <<>>
    /\ UNCHANGED <<tree, pc, file_index, path_set, staged, last, path_str,
                   sanitized>>

\* output_path relative to staging_path
OutputPath(item) == PathStr(SanitizeParts(item.parts))

\* The staging tree after output_path is written from item.
Write(tree_, item) ==
    {e \in tree_ : e[1] # OutputPath(item)} \cup {<<OutputPath(item), item.parts>>}

\* The calls of replacement that convert_obsidian_links makes on content.
Calls(content, current_file, index, paths) ==
    LET refs == EmbedsFrom(content, 1)
    IN  [k \in 1..Len(refs) |->
            [raw_reference |-> refs[k],
             returned |-> replacement(refs[k], current_file, index, paths)]]

\* process_markdown_file on a file that cannot be read: open() raises, the
\* except clause prints and returns False.
StageMarkdownUnreadable ==
    /\ pc = "stage" /\ pos < Len(tree)
    /\ ~Skipped(Current) /\ Current.is_file /\ IsMarkdown(Current)
    /\ last' = [done |-> TRUE, item |-> Current, read |-> FALSE,
                returned |-> FALSE]
    /\ printed' = << <<"Processing", Current.parts>>,
                     <<"Error processing", Current.parts>> >>
    /\ pc' = "file"
    /\ UNCHANGED <<tree, pos, file_index, path_set, staged, path_str, sanitized>>

\* process_markdown_file on a readable file, lines 254-261: the content is
\* read and processed.
StageMarkdown ==
    /\ pc = "stage" /\ pos < Len(tree)
    /\ ~Skipped(Current) /\ Current.is_file /\ IsMarkdown(Current)
    /\ \E content \in Contents :
       \E current_file \in {SanitizedPathStr(Current)} :
       \E phases \in {Phases(content, current_file, file_index, path_set)} :
           /\ last' = [done |-> TRUE, item |-> Current, read |-> TRUE,
                       current_file |-> current_file,
                       content |-> content,
                       phases |-> phases,
                       calls |-> Calls(phases.phase1, current_file, file_index,
                                       path_set)]
           /\ printed' = << <<"Processing", Current.parts>> >>
                              \o convert_prints(phases.phase1, current_file,
                                                file_index, path_set)
    /\ pc' = "file"
    /\ UNCHANGED <<tree, pos, file_index, path_set, staged, path_str, sanitized>>

\* process_markdown_file returns and the loop of create_staging_directory
\* goes on with the next item: the processed content was written (lines
\* 263-267), or writing it raised into the except clause (lines 268-270),
\* or the file had not been read.
StageMarkdownReturn ==
    /\ pc = "file"
    /\ \/ /\ last.read
          /\ staged' = Write(staged, last.item)
          /\ printed' = <<>>
       \/ /\ last.read
          /\ staged' = staged
          /\ printed' = << <<"Error processing", last.item.parts>> >>
       \/ /\ ~last.read
          /\ staged' = staged
          /\ printed' = <<>>
    /\ pc' = "stage"
    /\ pos' = pos + 1
    /\ last' = NoCall
    /\ UNCHANGED <<tree, file_index, path_set, path_str, sanitized>>

\* Lines 300-301: any other file is copied; a failing mkdir or copy2 raises
\* out of create_staging_directory.
StageCopy ==
    /\ pc = "stage" /\ pos < Len(tree)
    /\ ~Skipped(Current) /\ Current.is_file /\ ~IsMarkdown(Current)
    /\ \/ /\ staged' = Write(staged, Current)
          /\ pos' = pos + 1
          /\ pc' = pc
       \/ /\ pc' = "raised"
          /\ UNCHANGED <<staged, pos>>
    /\ printed' = <<>>
    /\ UNCHANGED <<tree, file_index, path_set, last, path_str, sanitized>>

\* create_staging_directory returns staging_path.
StageReturn ==
    /\ pc = "stage" /\ pos = Len(tree)
    /\ pc' = "done"
    /\ printed' = << <<"Staging directory created">> >>
    /\ UNCHANGED <<tree, pos, file_index, path_set, staged, last, path_str,
                   sanitized>>

Next ==
    \/ IndexSkipPrivate
    \/ IndexSkipDirectory
    \/ IndexAddFile
    \/ IndexReturn
    \/ StageSkipPrivate
    \/ StageSkipDirectory
    \/ StageMarkdownUnreadable
    \/ StageMarkdown
    \/ StageMarkdownReturn
    \/ StageCopy
    \/ StageReturn

Spec == Init /\ [][Next]_vars

-----------------------------------------------------------------------------
(* What a link target denotes, and what the traversal has seen.            *)

\* The segments of the directory that holds the document current_file.
DocDir(current_file) ==
    LET segs == Split(current_file, "/")
    IN  SubSeq(segs, 1, Len(segs) - 1)

\* The directory reached from dir by one segment of a link target. Climbing
\* out of the root leaves the tree.
Outside == << <<"(outside)">> >>

StepInto(dir, seg) ==
    IF dir = Outside THEN Outside
    ELSE IF seg = <<>> \/ seg = <<".">> THEN dir
    ELSE IF seg = <<".", ".">>
         THEN (IF dir = <<>> THEN Outside ELSE SubSeq(dir, 1, Len(dir) - 1))
         ELSE Append(dir, seg)

RECURSIVE WalkFrom(_, _)
WalkFrom(dir, segs) ==
    IF segs = <<>> THEN dir ELSE WalkFrom(StepInto(dir, Head(segs)), Tail(segs))

\* The root-relative path a link target denotes when it is walked segment
\* by segment from the directory of current_file.
Denotes(current_file, target) ==
    Join(WalkFrom(DocDir(current_file), Split(target, "/")), "/")

\* The text is one markdown link or image, "...](target)".
IsLink(text) ==
    /\ Find(text, 1, <<"]", "(">>) # 0
    /\ text # <<>> /\ text[Len(text)] = ")"
    /\ text[1] \in {"!", "["}
    /\ ~StartsWith(text, <<"!", "[", "[">>)

\* The target of a link text.
LinkTarget(text) ==
    SubSeq(text, Find(text, 1, <<"]", "(">>) + 2, Len(text) - 1)

\* The URLs of the links and images [text](url), ![alt](url) of a content,
\* in order.
RECURSIVE LinkUrlsFrom(_, _)
LinkUrlsFrom(s, i) ==
    IF i > Len(s) THEN <<>>
    ELSE LET m == AnyLinkMatch(s, i)
         IN  IF m.ok
             THEN <<SubSeq(s, m.t + 2, m.e - 1)>> \o LinkUrlsFrom(s, m.e + 1)
             ELSE LinkUrlsFrom(s, i + 1)

LinkUrls(content) == LinkUrlsFrom(content, 1)

\* The items the index traversal has consumed so far.
Seen == IF pc = "index" THEN SubSeq(tree, 1, pos) ELSE tree

\* A segment of a path relative to the source root starts with "." or "_".
HasPrivateSegment(parts) ==
    \E k \in 1..Len(parts) : parts[k] # <<>> /\ parts[k][1] \in {".", "_"}

\* The files the traversal has seen that are not private.
RECURSIVE PublicFiles(_)
PublicFiles(items) ==
    IF items = <<>> THEN <<>>
    ELSE (IF Head(items).is_file /\ ~HasPrivateSegment(Head(items).parts)
          THEN <<Head(items)>> ELSE <<>>) \o PublicFiles(Tail(items))

\* The last segment of a path.
Basename(path) ==
    LET slashes == {i \in 1..Len(path) : path[i] = "/"}
        last_slash == IF slashes = {} THEN 0
                      ELSE CHOOSE i \in slashes : \A j \in slashes : j <= i
    IN  SubSeq(path, last_slash + 1, Len(path))

\* The sanitized paths of a list of files, in the order of the list.
RECURSIVE SanitizedPaths(_)
SanitizedPaths(files) ==
    IF files = <<>> THEN <<>>
    ELSE <<SanitizedPathStr(Head(files))>> \o SanitizedPaths(Tail(files))

\* The paths of a list with filename key, in the order of the list.
RECURSIVE FirstSeenOrder(_, _)
FirstSeenOrder(paths, key) ==
    IF paths = <<>> THEN <<>>
    ELSE (IF Basename(Head(paths)) = key THEN <<Head(paths)>> ELSE <<>>)
             \o FirstSeenOrder(Tail(paths), key)

\* The paths of a value of file_index, as a list.
AsList(value) == IF value.kind = "list" THEN value.paths ELSE <<value.path>>

\* The calls of replacement made by the call of process_markdown_file in progress.
LastCalls == IF last.done /\ last.read THEN Range(last.calls) ELSE {}

IsBare(raw_reference) ==
    ~Contains(raw_reference, <<"/">>) /\ ~Contains(raw_reference, <<"\\">>)

-----------------------------------------------------------------------------
(* Properties of a run.                                                    *)

\* C1: a bare-filename reference whose sanitized filename maps to exactly
\* one path of file_index is emitted as a link whose target, walked from the
\* directory of the referencing document, denotes that indexed path.
C1_BareReferenceDenotesIndexedPath ==
    \A c \in LastCalls :
        LET key == sanitize_filename(c.raw_reference)
        IN  ( /\ IsBare(c.raw_reference)
              /\ key \in DOMAIN file_index
              /\ file_index[key].kind = "str" )
            => /\ IsLink(c.returned)
               /\ Denotes(last.current_file, LinkTarget(c.returned))
                      = file_index[key].path
               /\ Contains(last.phases.phase2, c.returned)

\* The document b_c/e.md embeds x.png, which only a/x.png provides.
C1_Witness ==
    /\ last.done /\ last.read
    /\ last.current_file = <<"b", "_", "c", "/", "e", ".", "m", "d">>
    /\ last.content = BareEmbed
    /\ <<"x", ".", "p", "n", "g">> \in DOMAIN file_index
    /\ file_index[<<"x", ".", "p", "n", "g">>]
           = StrValue(<<"a", "/", "x", ".", "p", "n", "g">>)
    /\ last.phases.phase2
           = <<"!", "[", "]", "(", ".", ".", "/", "a", "/", "x", ".", "p", "n",
               "g", ")">>

\* C2: a bare reference to a filename that several indexed files share is
\* emitted as a link to the first of them in traversal order, whatever the
\* referencing document, and the warning about the others is printed.
C2_AmbiguousReferenceTakesFirstSeen ==
    \A c \in LastCalls :
        LET key == sanitize_filename(c.raw_reference)
        IN  ( /\ IsBare(c.raw_reference)
              /\ key \in DOMAIN file_index
              /\ file_index[key].kind = "list" )
            => /\ IsLink(c.returned)
               /\ Denotes(last.current_file, LinkTarget(c.returned))
                      = FirstSeenOrder(SanitizedPaths(PublicFiles(tree)), key)[1]
               /\ Contains(last.phases.phase2, c.returned)
               /\ \E k \in DOMAIN printed :
                      /\ printed[k][1] = "Warning: Multiple files named"
                      /\ printed[k][2] = c.raw_reference

\* b c/x.png is indexed before a/x.png, and a document in a/ embeds x.png.
C2_Witness ==
    /\ last.done /\ last.read
    /\ tree = <<FileBX, FileAX, DocA>>
    /\ last.content = BareEmbed
    /\ last.phases.phase2
           = <<"!", "[", "]", "(", ".", ".", "/", "b", "_", "c", "/", "x", ".", "p", "n",
               "g", ")">>

\* The document's directory joined with a sanitized explicit reference.
DocRelative(current_file, sanitized_path) ==
    Join(Append(DocDir(current_file), sanitized_path), "/")

C4_MissingReferenceUnconverted ==
    \A c \in LastCalls :
        ( /\ IsBare(c.raw_reference)
          /\ sanitize_filename(c.raw_reference) \notin DOMAIN file_index )
        => /\ c.returned = <<"!", "[", "[">> \o c.raw_reference \o <<"]", "]">>
           /\ Contains(last.phases.phase2, c.returned)
           /\ \E k \in DOMAIN printed :
                  printed[k] = <<"Warning: File not found in index",
                                 c.raw_reference, last.current_file>>

\* a/d.md embeds x.png in a tree that holds no x.png.
C4_Witness ==
    /\ last.done /\ last.read
    /\ tree = <<FileAt, DocA>>
    /\ last.content = BareEmbed
    /\ last.phases.phase2 = BareEmbed

\* C5: every link or image of a document whose URL starts with http://,
\* https:// or data: leaves the link phases with its URL unchanged.
C5_ExternalUrlsUntouched ==
    (last.done /\ last.read) =>
        \A k \in DOMAIN LinkUrls(last.content) :
            IsExternal(LinkUrls(last.content)[k])
                => LinkUrls(last.content)[k] \in Range(LinkUrls(last.phases.phase2b))

\* C6: every link target that the link phases emitted is the same in the
\* final output.
C6_FixupKeepsLinkTargets ==
    (last.done /\ last.read) =>
        LinkUrls(last.phases.phase3) = LinkUrls(last.phases.phase2b)

\* C8: at every step of the traversal every path of path_set has its
\* filename as a key of file_index, and the value under a key lists exactly
\* the paths seen so far with that filename, in first-seen order.
C8_IndexCoversPathSet ==
    \A seen \in {SanitizedPaths(PublicFiles(Seen))} :
        /\ \A p \in path_set :
              /\ Basename(p) \in DOMAIN file_index
              /\ p \in Range(AsList(file_index[Basename(p)]))
        /\ \A key \in DOMAIN file_index :
              /\ AsList(file_index[key]) = FirstSeenOrder(seen, key)
              /\ file_index[key].kind = "list" => Len(file_index[key].paths) >= 2

\* In the middle of the traversal x.png is the name of two files seen.
C8_Witness ==
    /\ pc = "index" /\ pos = 2 /\ Len(tree) = 3
    /\ <<"x", ".", "p", "n", "g">> \in DOMAIN file_index
    /\ file_index[<<"x", ".", "p", "n", "g">>]
           = ListValue(<< <<"a", "/", "a", "/", "x", ".", "p", "n", "g">>,
                          <<"b", "_", "c", "/", "x", ".", "p", "n", "g">> >>)

\* C9: a file with a segment that starts with "." or "_" never enters
\* path_set or file_index, is never what a resolved reference denotes, and is
\* never written to the staging tree.
C9_PrivateFilesStayOut ==
    \A public \in {Range(SanitizedPaths(PublicFiles(tree)))} :
        /\ path_set \subseteq public
        /\ \A key \in DOMAIN file_index :
               Range(AsList(file_index[key])) \subseteq public
        /\ \A e \in staged : ~HasPrivateSegment(e[2])
        /\ \A c \in LastCalls :
               ( /\ IsBare(c.raw_reference)
                 /\ sanitize_filename(c.raw_reference) \in DOMAIN file_index )
               => Denotes(last.current_file, LinkTarget(c.returned)) \in public

\* A run over _p/x.png, a/x.png and a document has ended.
C9_Witness ==
    /\ pc = "done"
    /\ tree = <<FilePrivate, FileAX, DocRoot>>
    /\ path_set = {<<"a", "/", "x", ".", "p", "n", "g">>, <<"d", ".", "m", "d">>}
    /\ Cardinality(staged) = 2

\* C10: a failure on one file never ends the run: create_staging_directory
\* does not raise.
C10_FailureContained == pc # "raised"

\* The positions where the matches of !\[\[(.*?)\]\] start, in order.
RECURSIVE EmbedStartsFrom(_, _)
EmbedStartsFrom(s, i) ==
    IF i > Len(s) THEN <<>>
    ELSE LET j == EmbedMatchEnd(s, i)
         IN  IF j # 0 THEN <<i>> \o EmbedStartsFrom(s, j + 2)
             ELSE EmbedStartsFrom(s, i + 1)

\* The embed tokens of a content that come right after a character that is
\* not whitespace.
AttachedEmbeds(content) ==
    {i \in Range(EmbedStartsFrom(content, 1)) :
        i > 1 /\ content[i - 1] \notin Whitespace}

\* An embed starts at i, unconverted or converted to an image or a download
\* link.
EmbedAt(s, i) ==
    \/ StartsWithAt(s, i, <<"!", "[", "[">>)
    \/ StartsWithAt(s, i, <<"!", "[", "]", "(">>)
    \/ StartsWithAt(s, i, <<"[", "D", "o", "w", "n", "l", "o", "a", "d", " ">>)

\* The embeds of a content that open a block of their own: a blank line
\* stands between them and the character before.
IsolatedEmbeds(s) ==
    {i \in 4..Len(s) :
        /\ EmbedAt(s, i)
        /\ s[i - 1] = "\n" /\ s[i - 2] = "\n"
        /\ s[i - 3] \notin Whitespace}

\* C12: every embed that the input attaches to a preceding character opens
\* a block of its own in the output of process_markdown_content: the output
\* holds as many more isolated embeds than the input as the input holds
\* attached ones.
C12_AttachedEmbedIsolated ==
    (last.done /\ last.read) =>
        Cardinality(IsolatedEmbeds(last.phases.phase3))
            >= Cardinality(AttachedEmbeds(last.content))
                 + Cardinality(IsolatedEmbeds(last.content)
                                  \cap Range(EmbedStartsFrom(last.content, 1)))

\* t![[x.png]] in a/d.md, next to a/x.png, is written as t, a blank line and
\* the image.
C12_Witness ==
    /\ last.done /\ last.read
    /\ last.content = InlineEmbed
    /\ last.current_file = <<"a", "/", "d", ".", "m", "d">>
    /\ last.phases.phase3
           = <<"t", "\n", "\n", "!", "[", "]", "(", "x", ".", "p", "n", "g", ")">>

\* C11: while a document is resolved the index holds every public file of
\* the tree, and no step after build_file_index has returned changes
\* file_index or path_set.
C11_IndexBuiltThenFrozen ==
    /\ [](last.done =>
             /\ pc = "file"
             /\ path_set = Range(SanitizedPaths(PublicFiles(tree)))
             /\ \A p \in path_set :
                    /\ Basename(p) \in DOMAIN file_index
                    /\ p \in Range(AsList(file_index[Basename(p)])))
    /\ [][pc # "index" => /\ file_index' = file_index
                          /\ path_set' = path_set]_vars

\* A second document is being resolved, after a first one was staged.
C11_Witness ==
    /\ pc = "file" /\ pos = 2
    /\ tree = <<DocA, FileAX, DocRoot>>
    /\ last.done /\ last.read
    /\ Cardinality(path_set) = 3
    /\ Cardinality(staged) >= 2

\* The filename of a reference: its last segment that is not empty.
FileNameOf(raw_reference) ==
    LET segs == SelectSeq(Split(raw_reference, "/"), LAMBDA seg : seg # <<>>)
    IN  IF segs = <<>> THEN <<>> ELSE segs[Len(segs)]

\* The extension of a filename: what follows its last dot, when the dot is
\* neither its first nor its last character.
ExtensionOf(name) ==
    LET dots == {i \in 1..Len(name) : name[i] = "."}
        last_dot == IF dots = {} THEN 0
                    ELSE CHOOSE i \in dots : \A j \in dots : j <= i
    IN  IF 1 < last_dot /\ last_dot < Len(name)
        THEN SubSeq(name, last_dot + 1, Len(name)) ELSE <<>>

ImageExtensionNames ==
    { <<"j", "p", "g">>, <<"j", "p", "e", "g">>, <<"p", "n", "g">>,
      <<"g", "i", "f">>, <<"w", "e", "b", "p">>, <<"s", "v", "g">>,
      <<"b", "m", "p">> }

SameIgnoringCase(a, b) ==
    /\ Len(a) = Len(b)
    /\ \A k \in 1..Len(a) : LowerChar(a[k]) = LowerChar(b[k])

IsImageReference(raw_reference) ==
    \E e \in ImageExtensionNames :
        SameIgnoringCase(ExtensionOf(FileNameOf(raw_reference)), e)

\* C13: a reference that is rendered as a link is rendered by its extension
\* alone, compared without regard to case: an image extension gives an image
\* with empty alt text, any other a download link labelled with the
\* filename of the reference; the target is a path that leads to an indexed
\* file or, for an explicit path found nowhere, the sanitized reference.
C13_RenderingByExtension ==
    \A c \in LastCalls :
        IsLink(c.returned) =>
            LET target == LinkTarget(c.returned)
            IN  /\ IsImageReference(c.raw_reference)
                     => c.returned = <<"!", "[", "]", "(">> \o target \o <<")">>
                /\ ~IsImageReference(c.raw_reference)
                     => c.returned
                          = <<"[", "D", "o", "w", "n", "l", "o", "a", "d", " ">>
                              \o FileNameOf(c.raw_reference)
                              \o <<"]", "(">> \o target \o <<")">>
                /\ \/ Denotes(last.current_file, target) \in path_set
                   \/ /\ ~IsBare(c.raw_reference)
                      /\ target = sanitize_path(c.raw_reference)

\* ![[a/x.PNG]] is found nowhere and is rendered as an image all the same.
C13_Witness ==
    /\ last.done /\ last.read
    /\ last.content = <<"!", "[", "[", "a", "/", "x", ".", "P", "N", "G", "]", "]">>
    /\ Len(last.calls) = 1
    /\ last.calls[1].returned
           = <<"!", "[", "]", "(", "a", "/", "x", ".", "P", "N", "G", ")">>

\* C14: when every link of a content comes from convert_obsidian_links, each
\* link that leads to an indexed file leads to the same file after
\* rewrite_absolute_paths.
C14_RewriteKeepsConvertedLinks ==
    (last.done /\ last.read /\ LinkUrls(last.phases.phase1) = <<>>) =>
        LET before == LinkUrls(last.phases.phase2)
            after  == LinkUrls(last.phases.phase2b)
        IN  /\ Len(after) = Len(before)
            /\ \A k \in DOMAIN before :
                   Denotes(last.current_file, before[k]) \in path_set
                       => Denotes(last.current_file, after[k])
                              = Denotes(last.current_file, before[k])

-----------------------------------------------------------------------------
(* Calls of process_markdown_content on generated contents, for a document *)
(* a/d.md of a tree that was indexed in the order a/a/x.png, a/x.png,      *)
(* a/@.pdf.                                                                *)

\* The pieces a generated content is a concatenation of.
Pieces == {<<"t">>, <<" ">>, <<"\n">>, <<"!", "[", "[">>, <<"]", "]">>,
           <<"x", ".", "p", "n", "g">>, <<"x", ".", "P", "N", "G">>,
           <<"@", ".", "p", "d", "f">>, <<"a", "/">>}

RECURSIVE ContentsUpTo(_)
ContentsUpTo(n) ==
    IF n = 0 THEN {<<>>}
    ELSE LET shorter == ContentsUpTo(n - 1)
         IN  shorter \cup {c \o piece : c \in shorter, piece \in Pieces}

IndexedTree == <<FileAAX, FileAX, FileAt>>

\* file_index and path_set after build_file_index has consumed items.
RECURSIVE BuildIndex(_)
BuildIndex(items) ==
    IF items = <<>> THEN [file_index |-> <<>>, path_set |-> {}]
    ELSE LET n == Len(items)
             before == BuildIndex(SubSeq(items, 1, n - 1))
             item == items[n]
         IN  IF Skipped(item) \/ ~item.is_file THEN before
             ELSE [file_index |->
                       index_add(before.file_index,
                                 sanitize_filename(ItemName(item)),
                                 SanitizedPathStr(item)),
                   path_set |-> before.path_set \cup {SanitizedPathStr(item)}]

InitContent ==
    /\ tree = IndexedTree
    /\ pc = "file"
    /\ pos = 0
    /\ file_index = BuildIndex(IndexedTree).file_index
    /\ path_set = BuildIndex(IndexedTree).path_set
    /\ staged = {}
    /\ printed = <<>>
    /\ last \in {[done |-> FALSE, content |-> content,
                   current_file |-> SanitizedPathStr(DocA)] :
                      content \in ContentsUpTo(MaxPieces)}
    /\ path_str = <<>>
    /\ sanitized = Unset

\* process_markdown_file, line 261: the content read is processed.
CallProcessMarkdownContent ==
    /\ ~last.done
    /\ \E phases \in {Phases(last.content, last.current_file, file_index,
                              path_set)} :
           /\ last' = [done |-> TRUE, item |-> DocA, read |-> TRUE,
                       current_file |-> last.current_file,
                       content |-> last.content,
                       phases |-> phases,
                       calls |-> Calls(phases.phase1, last.current_file,
                                       file_index, path_set)]
           /\ printed' = convert_prints(phases.phase1, last.current_file,
                                        file_index, path_set)
    /\ UNCHANGED <<tree, pc, pos, file_index, path_set, staged, path_str,
                   sanitized>>

NextContent == CallProcessMarkdownContent

SpecContent == InitContent /\ [][NextContent]_vars

-----------------------------------------------------------------------------
(* Calls of sanitize_path on enumerated arguments.                         *)

PathChars == {"%", "2", "0", " ", "\\", "/"}

RECURSIVE StringsUpTo(_, _)
StringsUpTo(chars, n) ==
    IF n = 0 THEN {<<>>}
    ELSE LET shorter == StringsUpTo(chars, n - 1)
         IN  shorter \cup {Append(s, c) : s \in shorter, c \in chars}

InitSanitize ==
    /\ path_str \in StringsUpTo(PathChars, MaxLen)
    /\ sanitized = Unset
    /\ tree = <<>>
    /\ pc = "done"
    /\ pos = 0
    /\ file_index = <<>>
    /\ path_set = {}
    /\ staged = {}
    /\ printed = <<>>
    /\ last = NoCall

CallSanitizePath ==
    /\ ~sanitized.done
    /\ sanitized' = [done |-> TRUE, value |-> sanitize_path(path_str)]
    /\ UNCHANGED <<tree, pc, pos, file_index, path_set, staged, printed, last,
                   path_str>>

NextSanitize == CallSanitizePath

SpecSanitize == InitSanitize /\ [][NextSanitize]_vars

\* C7: sanitize_path is idempotent and its result holds no space, no "%20"
\* and no backslash.
C7_SanitizeIdempotent ==
    sanitized.done =>
        /\ sanitize_path(sanitized.value) = sanitized.value
        /\ ~Contains(sanitized.value, <<" ">>)
        /\ ~Contains(sanitized.value, <<"%", "2", "0">>)
        /\ ~Contains(sanitized.value, <<"\\">>)

\* A call whose argument holds an encoded space, a space and a backslash.
C7_Witness ==
    /\ sanitized.done
    /\ path_str = <<"%", "2", "0", "\\", " ">>
    /\ sanitized.value = <<"_", "/", "_">>

=============================================================================
